---- MODULE Spec2Model ----
(***************************************************************************)
(* Model of the RAM KVM AI agent: the visual feedback control loop         *)
(* (src/src/agent.py, Agent.execute_task) and the USB HID gadget layer     *)
(* that it drives (src/src/hid.py, Keyboard and Mouse).                    *)
(*                                                                         *)
(* Conventions                                                             *)
(*   - A Python Optional value is a sequence of length at most one:        *)
(*     None is <<>>, a present value v is <<v>>.                           *)
(*   - A Python str that the code iterates over (text typed on the         *)
(*     keyboard) is a sequence of one-character strings.                   *)
(*   - A formatted string (f"...{e}") is the sequence of its parts.        *)
(*   - The file a device path names is the sequence of the reports         *)
(*     written to it, oldest first.                                        *)
(***************************************************************************)
EXTENDS Integers, Sequences, FiniteSets, TLC

VARIABLES
    pc,                \* position of the caller in Agent.execute_task
    max_iterations,    \* Agent.max_iterations
    move_speed,        \* Agent.move_speed
    callback,          \* the callback argument of execute_task: "none" or "present"
    iteration,         \* Agent.iteration
    history,           \* Agent.history
    context,           \* execute_task's local context string, one entry per appended line
    estimated_cursor,  \* Agent.estimated_cursor (Optional[Point])
    result,            \* the value execute_task returned (Optional[dict])
    kbd,               \* reports written to the keyboard device /dev/hidg0
    ptr,               \* reports written to the pointer device /dev/hidg1
    events,            \* every capture, judge call, device write and callback call, in order
    calls,             \* number of direct Keyboard and Mouse calls made by a HID client
    vision,            \* Agent.vision: the judgments its analyze can return
    run,               \* number of execute_task calls made on the Agent
    results,           \* the dicts execute_task has returned, as their holders see them now
    frame_queue,       \* Viewer._frame_queue, oldest frame first
    current_frame,     \* Viewer._current_frame (Optional[ViewerFrame])
    display,           \* the display thread: "none", "running" or "stopped"
    upd,               \* per producer thread, its position in Viewer.update and its frame
    submitted,         \* number of frames passed to Viewer.update so far
    discarded,         \* frames Viewer.update removed from the queue, in order
    dropped,           \* frames Viewer.update gave up enqueuing, in order
    shown              \* frames the display thread took from the queue, in order

\* the state of the runs made on one Agent
runVars == <<vision, run, results>>

\* the state of the Viewer and of the threads that use it
viewVars == <<frame_queue, current_frame, display, upd, submitted, discarded,
              dropped, shown>>

vars == <<pc, max_iterations, move_speed, callback, iteration, history, context,
          estimated_cursor, result, kbd, ptr, events, calls, vision, run,
          results, frame_queue, current_frame, display, upd, submitted,
          discarded, dropped, shown>>

----------------------------------------------------------------------------
(* Bounds of the model *)

\* largest max_iterations an Agent is constructed with
MaxIter == 3

\* number of direct Keyboard or Mouse calls a HID client makes
MaxCalls == 2

\* number of execute_task calls made on one Agent
MaxRuns == 2

\* largest max_iterations of an Agent that runs more than one task
MaxRunIter == 1

\* number of frames passed to Viewer.update
MaxFrames == 7

\* length of the sample strings passed to Keyboard.type_string
MaxTextLen == 3

----------------------------------------------------------------------------
(* Optional values *)

None == <<>>

Some(v) == <<v>>

IsSome(o) == Len(o) = 1

Get(o) == o[1]

----------------------------------------------------------------------------
(* src/src/hid.py: tables *)

\* The string "\\b" stands for the backspace character '\b' and "grave" for
\* the grave accent (chr(96)), which a TLA+ string cannot hold.
KEYMAP ==
    [c \in {"a","b","c","d","e","f","g","h","i","j","k","l","m","n","o","p",
            "q","r","s","t","u","v","w","x","y","z","1","2","3","4","5","6",
            "7","8","9","0"," ","-","=","[","]","\\",";","'","grave",",",".","/",
            "\n","\t","\\b"} |->
       CASE c = "a" -> 4   [] c = "b" -> 5   [] c = "c" -> 6   [] c = "d" -> 7
         [] c = "e" -> 8   [] c = "f" -> 9   [] c = "g" -> 10  [] c = "h" -> 11
         [] c = "i" -> 12  [] c = "j" -> 13  [] c = "k" -> 14  [] c = "l" -> 15
         [] c = "m" -> 16  [] c = "n" -> 17  [] c = "o" -> 18  [] c = "p" -> 19
         [] c = "q" -> 20  [] c = "r" -> 21  [] c = "s" -> 22  [] c = "t" -> 23
         [] c = "u" -> 24  [] c = "v" -> 25  [] c = "w" -> 26  [] c = "x" -> 27
         [] c = "y" -> 28  [] c = "z" -> 29  [] c = "1" -> 30  [] c = "2" -> 31
         [] c = "3" -> 32  [] c = "4" -> 33  [] c = "5" -> 34  [] c = "6" -> 35
         [] c = "7" -> 36  [] c = "8" -> 37  [] c = "9" -> 38  [] c = "0" -> 39
         [] c = " " -> 44  [] c = "-" -> 45  [] c = "=" -> 46  [] c = "[" -> 47
         [] c = "]" -> 48  [] c = "\\" -> 49 [] c = ";" -> 51  [] c = "'" -> 52
         [] c = "grave" -> 53  [] c = "," -> 54  [] c = "." -> 55  [] c = "/" -> 56
         [] c = "\n" -> 40 [] c = "\t" -> 43 [] c = "\\b" -> 42]

SHIFT_CHARS ==
    [c \in {"A","B","C","D","E","F","G","H","I","J","K","L","M","N","O","P",
            "Q","R","S","T","U","V","W","X","Y","Z","!","@","#","$","%","^",
            "&","*","(",")","_","+","{","}","|",":","\"","~","<",">","?"} |->
       CASE c = "A" -> "a" [] c = "B" -> "b" [] c = "C" -> "c" [] c = "D" -> "d"
         [] c = "E" -> "e" [] c = "F" -> "f" [] c = "G" -> "g" [] c = "H" -> "h"
         [] c = "I" -> "i" [] c = "J" -> "j" [] c = "K" -> "k" [] c = "L" -> "l"
         [] c = "M" -> "m" [] c = "N" -> "n" [] c = "O" -> "o" [] c = "P" -> "p"
         [] c = "Q" -> "q" [] c = "R" -> "r" [] c = "S" -> "s" [] c = "T" -> "t"
         [] c = "U" -> "u" [] c = "V" -> "v" [] c = "W" -> "w" [] c = "X" -> "x"
         [] c = "Y" -> "y" [] c = "Z" -> "z" [] c = "!" -> "1" [] c = "@" -> "2"
         [] c = "#" -> "3" [] c = "$" -> "4" [] c = "%" -> "5" [] c = "^" -> "6"
         [] c = "&" -> "7" [] c = "*" -> "8" [] c = "(" -> "9" [] c = ")" -> "0"
         [] c = "_" -> "-" [] c = "+" -> "=" [] c = "{" -> "[" [] c = "}" -> "]"
         [] c = "|" -> "\\" [] c = ":" -> ";" [] c = "\"" -> "'" [] c = "~" -> "grave"
         [] c = "<" -> "," [] c = ">" -> "." [] c = "?" -> "/"]

SPECIAL_KEYS ==
    [k \in {"enter","escape","backspace","tab","space","capslock","f1","f2",
            "f3","f4","f5","f6","f7","f8","f9","f10","f11","f12","right",
            "left","down","up","delete","home","end","pageup","pagedown"} |->
       CASE k = "enter" -> 40    [] k = "escape" -> 41 [] k = "backspace" -> 42
         [] k = "tab" -> 43      [] k = "space" -> 44  [] k = "capslock" -> 57
         [] k = "f1" -> 58       [] k = "f2" -> 59     [] k = "f3" -> 60
         [] k = "f4" -> 61       [] k = "f5" -> 62     [] k = "f6" -> 63
         [] k = "f7" -> 64       [] k = "f8" -> 65     [] k = "f9" -> 66
         [] k = "f10" -> 67      [] k = "f11" -> 68    [] k = "f12" -> 69
         [] k = "right" -> 79    [] k = "left" -> 80   [] k = "down" -> 81
         [] k = "up" -> 82       [] k = "delete" -> 76 [] k = "home" -> 74
         [] k = "end" -> 77      [] k = "pageup" -> 75 [] k = "pagedown" -> 78]

MOD_NONE == 0

MOD_CTRL == 1

MOD_SHIFT == 2

MOD_ALT == 4

MOD_META == 8

\* modifier | bit, for bit a power of two
BitOr(modifier, bit) ==
    IF (modifier \div bit) % 2 = 1 THEN modifier ELSE modifier + bit

\* str.lower() on the key names a client passes
Lower(key) ==
    CASE key = "Enter" -> "enter"
      [] key = "PageUp" -> "pageup"
      [] key = "Ctrl" -> "ctrl"
      [] key = "C" -> "c"
      [] OTHER -> key

----------------------------------------------------------------------------
(* src/src/hid.py: Keyboard.  Each operation maps the device file before   *)
(* the call to the device file after it.                                   *)

\* bytes([modifier, 0, keycode, 0, 0, 0, 0, 0]) written to the device
Keyboard_send_report(dev, modifier, keycode) ==
    Append(dev, <<modifier, 0, keycode, 0, 0, 0, 0, 0>>)

\* mutant: the full stop is given the keycode of the comma
KeymapGet_Collide(char) ==
    IF char = "."
    THEN 54
    ELSE IF char \in DOMAIN KEYMAP THEN KEYMAP[char] ELSE 0

\* KEYMAP.get(char, 0)
KeymapGet(char) == IF char \in DOMAIN KEYMAP THEN KEYMAP[char] ELSE 0

\* SPECIAL_KEYS.get(key.lower(), 0)
SpecialGet(key) ==
    IF Lower(key) \in DOMAIN SPECIAL_KEYS THEN SPECIAL_KEYS[Lower(key)] ELSE 0

press_key(dev, char, modifier) ==
    LET shifted == char \in DOMAIN SHIFT_CHARS
        m       == IF shifted THEN BitOr(modifier, MOD_SHIFT) ELSE modifier
        base    == IF shifted THEN SHIFT_CHARS[char] ELSE char
        keycode == KeymapGet(base)
    IN  IF keycode = 0
        THEN dev
        ELSE Keyboard_send_report(Keyboard_send_report(dev, m, keycode), 0, 0)

\* mutant: the special key is pressed and never released
press_special_NoRelease(dev, key, modifier) ==
    LET keycode == SpecialGet(key)
    IN  IF keycode = 0
        THEN dev
        ELSE Keyboard_send_report(dev, modifier, keycode)

press_special(dev, key, modifier) ==
    LET keycode == SpecialGet(key)
    IN  IF keycode = 0
        THEN dev
        ELSE Keyboard_send_report(Keyboard_send_report(dev, modifier, keycode), 0, 0)

\* mutant: typing stops at the first character that writes nothing
RECURSIVE type_string_StopsAtUnmapped(_, _)
type_string_StopsAtUnmapped(dev, text) ==
    IF text = <<>> \/ press_key(dev, Head(text), MOD_NONE) = dev
    THEN dev
    ELSE type_string_StopsAtUnmapped(press_key(dev, Head(text), MOD_NONE), Tail(text))

\* "for char in text: self.press_key(char)"
RECURSIVE type_string(_, _)
type_string(dev, text) ==
    IF text = <<>>
    THEN dev
    ELSE type_string(press_key(dev, Head(text), MOD_NONE), Tail(text))

\* the loop of hotkey over its keys: the pair <<modifier, keycode>> it ends with
RECURSIVE HotkeyScan(_, _, _)
HotkeyScan(keys, modifier, keycode) ==
    IF keys = <<>>
    THEN <<modifier, keycode>>
    ELSE LET key == Lower(Head(keys))
         IN  IF key \in {"ctrl", "control"}
             THEN HotkeyScan(Tail(keys), BitOr(modifier, MOD_CTRL), keycode)
             ELSE IF key \in {"shift"}
             THEN HotkeyScan(Tail(keys), BitOr(modifier, MOD_SHIFT), keycode)
             ELSE IF key \in {"alt", "option"}
             THEN HotkeyScan(Tail(keys), BitOr(modifier, MOD_ALT), keycode)
             ELSE IF key \in {"meta", "cmd", "command", "win", "super"}
             THEN HotkeyScan(Tail(keys), BitOr(modifier, MOD_META), keycode)
             ELSE IF key \in DOMAIN SPECIAL_KEYS
             THEN HotkeyScan(Tail(keys), modifier, SPECIAL_KEYS[key])
             ELSE IF key \in DOMAIN KEYMAP
             THEN HotkeyScan(Tail(keys), modifier, KEYMAP[key])
             ELSE HotkeyScan(Tail(keys), modifier, keycode)

\* mutant: hotkey sends the press report and never the release
hotkey_NoRelease(dev, keys) ==
    LET mk == HotkeyScan(keys, MOD_NONE, 0)
    IN  Keyboard_send_report(dev, mk[1], mk[2])

hotkey(dev, keys) ==
    LET mk == HotkeyScan(keys, MOD_NONE, 0)
    IN  Keyboard_send_report(Keyboard_send_report(dev, mk[1], mk[2]), 0, 0)

----------------------------------------------------------------------------
(* src/src/hid.py: Mouse *)

\* mutant: only the upper limit is enforced
Clamp_UpperOnly(v) == IF v > 127 THEN 127 ELSE v

\* max(-127, min(127, v))
Clamp(v) == IF v > 127 THEN 127 ELSE IF v < -127 THEN -127 ELSE v

\* struct.pack('bbb', buttons, x, y) written to the device
Mouse_send_report(dev, buttons, x, y) ==
    Append(dev, <<buttons, Clamp(x), Clamp(y)>>)

Mouse_move(dev, x, y) == Mouse_send_report(dev, 0, x, y)

\* {'left': 1, 'right': 2, 'middle': 4}.get(button, 1)
ButtonGet(button) ==
    CASE button = "left" -> 1
      [] button = "right" -> 2
      [] button = "middle" -> 4
      [] OTHER -> 1

Mouse_click(dev, button) ==
    Mouse_send_report(Mouse_send_report(dev, ButtonGet(button), 0, 0), 0, 0, 0)

\* range(20): the number of moves toward the top-left corner
HomingMoves == 20

\* "for _ in range(n): self.move(-127, -127)"
RECURSIVE MoveToCorner(_, _)
MoveToCorner(dev, n) ==
    IF n = 0 THEN dev ELSE MoveToCorner(Mouse_move(dev, -127, -127), n - 1)

\* "while abs(dx) > 0 or abs(dy) > 0": one move per step of at most 127
RECURSIVE MoveInSteps(_, _, _)
MoveInSteps(dev, dx, dy) ==
    IF dx = 0 /\ dy = 0
    THEN dev
    ELSE LET step_x == Clamp(dx)
             step_y == Clamp(dy)
         IN  MoveInSteps(Mouse_move(dev, step_x, step_y), dx - step_x, dy - step_y)

\* Mouse.move_to(target_x, target_y, current_x=..., current_y=...), the
\* current coordinates being Optional
Mouse_move_to(dev, target_x, target_y, current_x, current_y) ==
    IF current_x = None \/ current_y = None
    THEN MoveInSteps(MoveToCorner(dev, HomingMoves), target_x - 0, target_y - 0)
    ELSE MoveInSteps(dev, target_x - Get(current_x), target_y - Get(current_y))

----------------------------------------------------------------------------
(* src/src/agent.py: data *)

Point(x, y) == [x |-> x, y |-> y]

\* Agent.screen_width, from the default screen_resolution
ScreenWidth == 1920

\* Agent.screen_height, from the default screen_resolution
ScreenHeight == 1080

\* A ScreenAnalysis.  confidence and raw_response are never read by Agent and
\* are left out.
Analysis(cursor, target, desc, action, text) ==
    [cursor_position    |-> cursor,
     target_position    |-> target,
     target_found       |-> IsSome(target),
     target_description |-> desc,
     suggested_action   |-> action,
     text_to_type       |-> text]

\* The values of Agent.move_speed the model constructs agents with
MoveSpeeds == {40, 160}

\* Cursor points a judgment reports
CursorPoints == {Point(900, 500)}

\* Target points a judgment reports: the screen centre and a far point
TargetPoints == {Point(960, 540), Point(1100, 560)}

\* Texts a 'type' judgment carries: none, the empty string, and a string with
\* a plain, a shifted and an unmapped character
Texts == {None, Some(<<>>), Some(<<"h", "I", "\r">>)}

\* An action string outside the seven the prompt lists
UnrecognizedActions == {"scroll"}

\* The judgments VisionProvider.analyze returns in the model
Judgments ==
    {Analysis(c, t, "target", "move", None) :
        c \in {None} \cup {Some(p) : p \in CursorPoints},
        t \in {None} \cup {Some(p) : p \in TargetPoints}}
    \cup {Analysis(c, Some(Point(960, 540)), "target", "click", None) :
        c \in {None} \cup {Some(p) : p \in CursorPoints}}
    \cup {Analysis(None, None, "field", "type", t) : t \in Texts}
    \cup {Analysis(None, None, "page", a, None) : a \in {"scroll_up", "scroll_down"}}
    \cup {Analysis(None, None, "finished", "done", None)}
    \cup {Analysis(None, None, "Parse error: bad json", "error", None)}
    \cup {Analysis(None, None, "page", a, None) : a \in UnrecognizedActions}

\* A value of Agent.move_speed below the floors 5 and 10 of the distance bands
SlowSpeeds == {8}

\* The judgments that steer the pointer, click or finish: those of Judgments,
\* a move toward a target less than 50 pixels away, and a move toward the far
\* target from a second cursor point, less than 150 pixels away from it
PointerJudgments ==
    {analysis \in Judgments :
        analysis.suggested_action \in {"move", "click", "done"}}
    \cup {Analysis(Some(Point(900, 500)), Some(Point(920, 510)), "target", "move", None),
          Analysis(Some(Point(1000, 500)), Some(Point(1100, 560)), "target", "move", None)}

\* One or two judgments of each kind of action
KindJudgments ==
    {Analysis(Some(Point(900, 500)), Some(Point(1100, 560)), "target", "move", None),
     Analysis(None, None, "target", "move", None),
     Analysis(Some(Point(900, 500)), Some(Point(960, 540)), "target", "click", None),
     Analysis(None, None, "field", "type", None),
     Analysis(None, None, "field", "type", Some(<<"h", "I", "\r">>)),
     Analysis(None, None, "page", "scroll_up", None),
     Analysis(None, None, "page", "scroll_down", None),
     Analysis(None, None, "finished", "done", None),
     Analysis(None, None, "Parse error: bad json", "error", None),
     Analysis(None, None, "page", "scroll", None)}

\* The judgments of a judge that only steers the pointer and finishes
FewJudgments ==
    {Analysis(Some(Point(900, 500)), Some(Point(1100, 560)), "target", "move", None),
     Analysis(None, Some(Point(1100, 560)), "target", "move", None),
     Analysis(None, None, "finished", "done", None)}

\* The threads that call Viewer.update
Producers == {"agent", "other"}

\* The exceptions the capture and the vision collaborators raise, as str(e)
CaptureErrors == {"Failed to capture frame: no device"}

VisionErrors == {"timeout"}

----------------------------------------------------------------------------
(* src/src/agent.py: Agent.move_cursor_toward *)

\* floor(num / sqrt(d2)) for num >= 0, d2 > 0 and num / sqrt(d2) <= cap
FloorDivSqrt(num, d2, cap) ==
    CHOOSE m \in 0..cap :
        /\ m * m * d2 <= num * num
        /\ (m + 1) * (m + 1) * d2 > num * num

\* int((d / distance) * speed) with distance = sqrt(d2) > 0: truncation
\* toward zero
ScaleTrunc(d, d2, speed) ==
    IF d >= 0
    THEN FloorDivSqrt(d * speed, d2, speed)
    ELSE -FloorDivSqrt((-d) * speed, d2, speed)

\* mutant: the reduced speeds have no floor
BandSpeed_NoFloors(d2, speed) ==
    IF d2 < 50 * 50
    THEN speed \div 4
    ELSE IF d2 < 150 * 150 THEN speed \div 2 ELSE speed

\* the speed selected from the distance bands, distance^2 = d2
BandSpeed(d2, speed) ==
    IF d2 < 50 * 50
    THEN (IF speed \div 4 > 5 THEN speed \div 4 ELSE 5)
    ELSE IF d2 < 150 * 150
    THEN (IF speed \div 2 > 10 THEN speed \div 2 ELSE 10)
    ELSE speed

\* <<move_x, move_y>> that move_cursor_toward(target) passes to Mouse.move
MoveVector(estimate, target, base) ==
    IF IsSome(estimate)
    THEN LET dx == target.x - Get(estimate).x
             dy == target.y - Get(estimate).y
             d2 == dx * dx + dy * dy
             speed == BandSpeed(d2, base)
         IN  IF d2 > 0
             THEN <<ScaleTrunc(dx, d2, speed), ScaleTrunc(dy, d2, speed)>>
             ELSE <<0, 0>>
    ELSE LET dx == target.x - ScreenWidth \div 2
             dy == target.y - ScreenHeight \div 2
             d2 == dx * dx + dy * dy
         IN  IF d2 > 0
             THEN <<ScaleTrunc(dx, d2, base), ScaleTrunc(dy, d2, base)>>
             ELSE <<0, 0>>

\* mutant: only the x coordinate of the estimate is advanced
EstimateAfterMove_DropsY(estimate, mv) ==
    IF IsSome(estimate)
    THEN Some(Point(Get(estimate).x + mv[1], Get(estimate).y))
    ELSE estimate

\* mutant: a move without estimate leaves the estimate at the screen
\* centre advanced by the delta
EstimateAfterMove_AppliesFallback(estimate, mv) ==
    IF IsSome(estimate)
    THEN Some(Point(Get(estimate).x + mv[1], Get(estimate).y + mv[2]))
    ELSE Some(Point(ScreenWidth \div 2 + mv[1], ScreenHeight \div 2 + mv[2]))

\* Agent.estimated_cursor after move_cursor_toward sent <<move_x, move_y>>
EstimateAfterMove(estimate, mv) ==
    IF IsSome(estimate)
    THEN Some(Point(Get(estimate).x + mv[1], Get(estimate).y + mv[2]))
    ELSE estimate

----------------------------------------------------------------------------
(* The observable trace: one entry per capture, judge call, Mouse.move or  *)
(* Mouse.move_to call, device write and callback invocation, in the order  *)
(* the single thread performs them.  A judge entry carries <<context       *)
(* passed, judgment returned (Optional)>>, a move entry the <<x, y>> passed *)
(* to Mouse.move, a move_to entry <<target, current (Optional)>>, a report *)
(* entry <<channel, report>>, a callback entry the pair <<analysis,        *)
(* action>> it was called with besides the iteration.                      *)

Event(kind, it, ok, arg) == [kind |-> kind, it |-> it, ok |-> ok, arg |-> arg]

\* the entries for the reports a call appended to device file chan
ReportEvents(it, chan, before, after) ==
    [k \in 1..(Len(after) - Len(before)) |->
        Event("report", it, TRUE, <<chan, after[Len(before) + k]>>)]

\* "if callback: callback(self.iteration, analysis, action)": the trace after
\* the call, which returns (raises = FALSE) or raises
InvokeCallback(ev, it, analysis, action, raises) ==
    IF callback = "present"
    THEN Append(ev, Event("callback", it, ~raises, <<analysis, action>>))
    ELSE ev

\* one line appended to context: f"\nIteration {it}: " followed by text
Note(it, text) == [iteration |-> it, text |-> text]

\* the dict execute_task returns
Result(success, iterations, hist, error) ==
    [success |-> success, iterations |-> iterations, history |-> hist,
     error |-> error]

\* mutant: the count is the one before "self.iteration += 1"
CaptureFailedResult_BeforeIncrement(it, hist, e) ==
    Result(FALSE, it - 1, hist, Some(<<"Capture failed: ", e>>))

\* the return of lines 277-282
CaptureFailedResult(it, hist, e) ==
    Result(FALSE, it, hist, Some(<<"Capture failed: ", e>>))

\* mutant: the failure return carries a fresh, empty history
VisionFailedResult_DropsHistory(it, hist, e) ==
    Result(FALSE, it, <<>>, Some(<<"Vision failed: ", e>>))

\* mutant: the failure return counts the judged iterations only
VisionFailedResult_CountsJudged(it, hist, e) ==
    Result(FALSE, Len(hist), hist, Some(<<"Vision failed: ", e>>))

\* the return of lines 291-296
VisionFailedResult(it, hist, e) ==
    Result(FALSE, it, hist, Some(<<"Vision failed: ", e>>))

\* mutant: the 'done' iteration is not counted
DoneResult_NotCounted(it, hist) == Result(TRUE, it - 1, hist, None)

\* the return of lines 308-313
DoneResult(it, hist) == Result(TRUE, it, hist, None)

\* mutant: the exhausted budget is returned without a reason
MaxIterationsResult_NoReason(it, hist) == Result(FALSE, it, hist, None)

\* the return of lines 355-360
MaxIterationsResult(it, hist) ==
    Result(FALSE, it, hist, Some(<<"Max iterations reached">>))

\* mutant: the loop test admits one iteration too many
LoopTest_Inclusive(it, max) == it <= max

\* while self.iteration < self.max_iterations
LoopTest(it, max) == it < max

----------------------------------------------------------------------------
(* Agent.__init__ *)

\* Viewer.__init__ (src/src/viewer.py): an empty queue, no current frame, no
\* display thread; no producer is inside update
ViewerInit ==
    /\ frame_queue = <<>>
    /\ current_frame = None
    /\ display = "none"
    /\ upd = [p \in Producers |-> [pc |-> "idle", frame |-> 0]]
    /\ submitted = 0
    /\ discarded = <<>>
    /\ dropped = <<>>
    /\ shown = <<>>

\* an Agent constructed with max_iterations in maxes and a judge whose
\* analyze returns the judgments in repertoire, and move_speed in speeds
AgentInit(maxes, repertoire, speeds) ==
    /\ pc = "idle"
    /\ max_iterations \in maxes
    /\ vision = repertoire
    /\ run = 0
    /\ results = <<>>
    /\ ViewerInit
    /\ move_speed \in speeds
    /\ callback = "none"
    /\ iteration = 0
    /\ history = <<>>
    /\ context = <<>>
    /\ estimated_cursor = None
    /\ result = None
    /\ kbd = <<>>
    /\ ptr = <<>>
    /\ events = <<>>
    /\ calls = 0

Init == AgentInit(1..MaxIter, Judgments, MoveSpeeds)

\* an Agent whose judge only steers the pointer, clicks or finishes
InitPointer == AgentInit(1..MaxIter, PointerJudgments, MoveSpeeds \cup SlowSpeeds)

\* an Agent whose judge returns each kind of action
InitKinds == AgentInit(1..MaxIter, KindJudgments, MoveSpeeds)

\* an Agent that is given several tasks, one after the other
InitRuns == AgentInit(1..MaxRunIter, FewJudgments, MoveSpeeds)

----------------------------------------------------------------------------
(* Agent.execute_task *)

\* a dict execute_task returned, as its holder sees it: its 'history' value
\* is the list object self.history was bound to at the return, and shares
\* tells whether self.history is still bound to that object
Held(dict) == [dict |-> dict, shares |-> TRUE]

\* mutant: the history list is emptied in place instead of being replaced
Rebind_ClearsInPlace(rs) ==
    [k \in 1..Len(rs) |->
        IF rs[k].shares
        THEN [rs[k] EXCEPT !.dict.history = <<>>]
        ELSE rs[k]]

\* "self.history = []" binds self.history to a new list: the dicts returned
\* earlier keep the old one
Rebind(rs) == [k \in 1..Len(rs) |-> [rs[k] EXCEPT !.shares = FALSE]]

\* "self.history.append(analysis)" seen through the dicts that hold the same
\* list object
AppendShared(rs, analysis) ==
    [k \in 1..Len(rs) |->
        IF rs[k].shares
        THEN [rs[k] EXCEPT !.dict.history = Append(@, analysis)]
        ELSE rs[k]]

\* the entry of execute_task: lines 266-268
BeginTask ==
    /\ \E cb \in {"none", "present"} : callback' = cb
    /\ iteration' = 0
    /\ history' = <<>>
    /\ results' = Rebind(results)
    /\ context' = <<>>
    /\ run' = run + 1
    /\ pc' = "loop"
    /\ UNCHANGED <<max_iterations, move_speed, estimated_cursor, result, kbd,
                   ptr, events, calls>>
    /\ UNCHANGED vision
    /\ UNCHANGED viewVars

\* the first call of execute_task on the Agent
StartTask ==
    /\ pc = "idle"
    /\ BeginTask

\* a later call of execute_task on the same Agent, after the previous one
\* returned or raised
StartAgain ==
    /\ pc \in {"returned", "raised"}
    /\ run < MaxRuns
    /\ BeginTask

\* the loop test holds and self.capture() returns an image
CaptureOk ==
    /\ pc = "loop"
    /\ LoopTest(iteration, max_iterations)
    /\ iteration' = iteration + 1
    /\ events' = Append(events, Event("capture", iteration + 1, TRUE, <<>>))
    /\ pc' = "captured"
    /\ UNCHANGED <<max_iterations, move_speed, callback, history, context,
                   estimated_cursor, result, kbd, ptr, calls>>
    /\ UNCHANGED runVars
    /\ UNCHANGED viewVars

\* the loop test holds and self.capture() raises
CaptureFail ==
    /\ pc = "loop"
    /\ LoopTest(iteration, max_iterations)
    /\ iteration' = iteration + 1
    /\ \E e \in CaptureErrors :
        /\ events' = Append(events, Event("capture", iteration + 1, FALSE, e))
        /\ result' = Some(CaptureFailedResult(iteration + 1, history, e))
        /\ results' = Append(results,
              Held(CaptureFailedResult(iteration + 1, history, e)))
    /\ pc' = "returned"
    /\ UNCHANGED <<max_iterations, move_speed, callback, history, context,
                   estimated_cursor, kbd, ptr, calls>>
    /\ UNCHANGED <<vision, run>>
    /\ UNCHANGED viewVars

\* the loop test fails: the return after the loop
ReturnMaxIterations ==
    /\ pc = "loop"
    /\ ~LoopTest(iteration, max_iterations)
    /\ result' = Some(MaxIterationsResult(iteration, history))
    /\ results' = Append(results, Held(MaxIterationsResult(iteration, history)))
    /\ pc' = "returned"
    /\ UNCHANGED <<max_iterations, move_speed, callback, iteration, history,
                   context, estimated_cursor, kbd, ptr, events, calls>>
    /\ UNCHANGED <<vision, run>>
    /\ UNCHANGED viewVars

\* mutant: an observed cursor point is taken only while nothing is known
ObservedEstimate_FirstOnly(estimate, analysis) ==
    IF IsSome(estimate) THEN estimate ELSE analysis.cursor_position

\* lines 299-300: "if analysis.cursor_position: self.estimated_cursor = ..."
ObservedEstimate(estimate, analysis) ==
    IF IsSome(analysis.cursor_position)
    THEN analysis.cursor_position
    ELSE estimate

\* self.vision.analyze returns (lines 287-289); the cursor estimate is updated
\* from the judgment (lines 299-300)
AnalyzeOk ==
    /\ pc = "captured"
    /\ \E analysis \in vision :
        /\ history' = Append(history, analysis)
        /\ results' = AppendShared(results, analysis)
        /\ estimated_cursor' = ObservedEstimate(estimated_cursor, analysis)
        /\ events' = Append(events,
              Event("judge", iteration, TRUE, <<context, Some(analysis)>>))
    /\ pc' = "analyzed"
    /\ UNCHANGED <<max_iterations, move_speed, callback, iteration, context,
                   result, kbd, ptr, calls>>
    /\ UNCHANGED <<vision, run>>
    /\ UNCHANGED viewVars

\* self.vision.analyze raises
AnalyzeFail ==
    /\ pc = "captured"
    /\ events' = Append(events, Event("judge", iteration, FALSE, <<context, None>>))
    /\ \E e \in VisionErrors :
        /\ result' = Some(VisionFailedResult(iteration, history, e))
        /\ results' = Append(results,
              Held(VisionFailedResult(iteration, history, e)))
    /\ pc' = "returned"
    /\ UNCHANGED <<max_iterations, move_speed, callback, iteration, history,
                   context, estimated_cursor, kbd, ptr, calls>>
    /\ UNCHANGED <<vision, run>>
    /\ UNCHANGED viewVars

\* the judgment of the current iteration (the local variable analysis)
CurrentAnalysis == history[Len(history)]

\* what a call of the callback can do: return, or raise when one is supplied
CallbackOutcomes == IF callback = "present" THEN {FALSE, TRUE} ELSE {FALSE}

\* where control goes after a branch of the loop body: the exception of a
\* raising callback is caught nowhere and leaves execute_task
AfterBranch(raises) == IF raises THEN "raised" ELSE "loop"

\* lines 305-313
ActDone ==
    /\ pc = "analyzed"
    /\ CurrentAnalysis.suggested_action = "done"
    /\ \E raises \in CallbackOutcomes :
        /\ events' = InvokeCallback(events, iteration, CurrentAnalysis, "done", raises)
        /\ IF raises
           THEN pc' = "raised" /\ result' = result /\ results' = results
           ELSE /\ pc' = "returned"
                /\ result' = Some(DoneResult(iteration, history))
                /\ results' = Append(results, Held(DoneResult(iteration, history)))
    /\ UNCHANGED <<max_iterations, move_speed, callback, iteration, history,
                   context, estimated_cursor, kbd, ptr, calls>>
    /\ UNCHANGED <<vision, run>>
    /\ UNCHANGED viewVars

\* mutant: the 'error' branch appends nothing to the context
ActError_NoNote ==
    /\ pc = "analyzed"
    /\ CurrentAnalysis.suggested_action = "error"
    /\ \E raises \in CallbackOutcomes :
        /\ events' = InvokeCallback(events, iteration, CurrentAnalysis, "error", raises)
        /\ pc' = AfterBranch(raises)
    /\ UNCHANGED <<max_iterations, move_speed, callback, iteration, history,
                   context, estimated_cursor, result, kbd, ptr, calls>>
    /\ UNCHANGED runVars
    /\ UNCHANGED viewVars

\* lines 315-319
ActError ==
    /\ pc = "analyzed"
    /\ CurrentAnalysis.suggested_action = "error"
    /\ context' = Append(context,
          Note(iteration, <<"Error - ", CurrentAnalysis.target_description>>))
    /\ \E raises \in CallbackOutcomes :
        /\ events' = InvokeCallback(events, iteration, CurrentAnalysis, "error", raises)
        /\ pc' = AfterBranch(raises)
    /\ UNCHANGED <<max_iterations, move_speed, callback, iteration, history,
                   estimated_cursor, result, kbd, ptr, calls>>
    /\ UNCHANGED runVars
    /\ UNCHANGED viewVars

\* lines 321-326, with move_cursor_toward (lines 200-240)
ActMove ==
    /\ pc = "analyzed"
    /\ CurrentAnalysis.suggested_action = "move"
    /\ LET target == CurrentAnalysis.target_position
           mv == MoveVector(estimated_cursor, Get(target), move_speed)
           ptr2 == IF IsSome(target) THEN Mouse_move(ptr, mv[1], mv[2]) ELSE ptr
       IN  /\ ptr' = ptr2
           /\ estimated_cursor' =
                 IF IsSome(target)
                 THEN EstimateAfterMove(estimated_cursor, mv)
                 ELSE estimated_cursor
           /\ context' =
                 IF IsSome(target)
                 THEN Append(context, Note(iteration,
                         <<"Moved toward ", CurrentAnalysis.target_description>>))
                 ELSE context
           /\ \E raises \in CallbackOutcomes :
               /\ events' = InvokeCallback(
                     IF IsSome(target)
                     THEN Append(events, Event("move", iteration, TRUE, mv))
                             \o ReportEvents(iteration, "ptr", ptr, ptr2)
                     ELSE events,
                     iteration, CurrentAnalysis, "move", raises)
               /\ pc' = AfterBranch(raises)
    /\ UNCHANGED <<max_iterations, move_speed, callback, iteration, history,
                   result, kbd, calls>>
    /\ UNCHANGED runVars
    /\ UNCHANGED viewVars

\* mutant: the click is sent only when the estimate is within 20 pixels of
\* the target
ActClick_ProximityGate ==
    /\ pc = "analyzed"
    /\ CurrentAnalysis.suggested_action = "click"
    /\ LET target == Get(CurrentAnalysis.target_position)
           near == /\ IsSome(estimated_cursor)
                   /\ (target.x - Get(estimated_cursor).x) * (target.x - Get(estimated_cursor).x)
                        + (target.y - Get(estimated_cursor).y) * (target.y - Get(estimated_cursor).y)
                        <= 20 * 20
       IN  ptr' = IF near THEN Mouse_click(ptr, "left") ELSE ptr
    /\ context' = Append(context, Note(iteration,
                     <<"Clicked on ", CurrentAnalysis.target_description>>))
    /\ \E raises \in CallbackOutcomes :
        /\ events' = InvokeCallback(
              events \o ReportEvents(iteration, "ptr", ptr, ptr'),
              iteration, CurrentAnalysis, "click", raises)
        /\ pc' = AfterBranch(raises)
    /\ UNCHANGED <<max_iterations, move_speed, callback, iteration, history,
                   estimated_cursor, result, kbd, calls>>
    /\ UNCHANGED runVars
    /\ UNCHANGED viewVars

\* lines 328-333, with Agent.click (lines 242-244)
ActClick ==
    /\ pc = "analyzed"
    /\ CurrentAnalysis.suggested_action = "click"
    /\ ptr' = Mouse_click(ptr, "left")
    /\ context' = Append(context, Note(iteration,
                     <<"Clicked on ", CurrentAnalysis.target_description>>))
    /\ \E raises \in CallbackOutcomes :
        /\ events' = InvokeCallback(
              events \o ReportEvents(iteration, "ptr", ptr, ptr'),
              iteration, CurrentAnalysis, "click", raises)
        /\ pc' = AfterBranch(raises)
    /\ UNCHANGED <<max_iterations, move_speed, callback, iteration, history,
                   estimated_cursor, result, kbd, calls>>
    /\ UNCHANGED runVars
    /\ UNCHANGED viewVars

\* lines 335-340; "if analysis.text_to_type" is false for None and for ""
ActType ==
    /\ pc = "analyzed"
    /\ CurrentAnalysis.suggested_action = "type"
    /\ LET text == CurrentAnalysis.text_to_type
           typed == IsSome(text) /\ Get(text) # <<>>
           kbd2 == IF typed THEN type_string(kbd, Get(text)) ELSE kbd
       IN  /\ kbd' = kbd2
           /\ context' =
                 IF typed
                 THEN Append(context, Note(iteration, <<"Typed '", Get(text), "'">>))
                 ELSE context
           /\ \E raises \in CallbackOutcomes :
               /\ events' = InvokeCallback(
                     events \o ReportEvents(iteration, "kbd", kbd, kbd2),
                     iteration, CurrentAnalysis, "type", raises)
               /\ pc' = AfterBranch(raises)
    /\ UNCHANGED <<max_iterations, move_speed, callback, iteration, history,
                   estimated_cursor, result, ptr, calls>>
    /\ UNCHANGED runVars
    /\ UNCHANGED viewVars

\* lines 342-347
ActScrollUp ==
    /\ pc = "analyzed"
    /\ CurrentAnalysis.suggested_action = "scroll_up"
    /\ kbd' = press_special(kbd, "pageup", MOD_NONE)
    /\ context' = Append(context, Note(iteration, <<"Scrolled up">>))
    /\ \E raises \in CallbackOutcomes :
        /\ events' = InvokeCallback(
              events \o ReportEvents(iteration, "kbd", kbd, kbd'),
              iteration, CurrentAnalysis, "scroll_up", raises)
        /\ pc' = AfterBranch(raises)
    /\ UNCHANGED <<max_iterations, move_speed, callback, iteration, history,
                   estimated_cursor, result, ptr, calls>>
    /\ UNCHANGED runVars
    /\ UNCHANGED viewVars

\* mutant: 'scroll_down' pages twice in one iteration
ActScrollDown_Twice ==
    /\ pc = "analyzed"
    /\ CurrentAnalysis.suggested_action = "scroll_down"
    /\ kbd' = press_special(press_special(kbd, "pagedown", MOD_NONE),
                            "pagedown", MOD_NONE)
    /\ context' = Append(context, Note(iteration, <<"Scrolled down">>))
    /\ \E raises \in CallbackOutcomes :
        /\ events' = InvokeCallback(
              events \o ReportEvents(iteration, "kbd", kbd, kbd'),
              iteration, CurrentAnalysis, "scroll_down", raises)
        /\ pc' = AfterBranch(raises)
    /\ UNCHANGED <<max_iterations, move_speed, callback, iteration, history,
                   estimated_cursor, result, ptr, calls>>
    /\ UNCHANGED runVars
    /\ UNCHANGED viewVars

\* lines 349-353
ActScrollDown ==
    /\ pc = "analyzed"
    /\ CurrentAnalysis.suggested_action = "scroll_down"
    /\ kbd' = press_special(kbd, "pagedown", MOD_NONE)
    /\ context' = Append(context, Note(iteration, <<"Scrolled down">>))
    /\ \E raises \in CallbackOutcomes :
        /\ events' = InvokeCallback(
              events \o ReportEvents(iteration, "kbd", kbd, kbd'),
              iteration, CurrentAnalysis, "scroll_down", raises)
        /\ pc' = AfterBranch(raises)
    /\ UNCHANGED <<max_iterations, move_speed, callback, iteration, history,
                   estimated_cursor, result, ptr, calls>>
    /\ UNCHANGED runVars
    /\ UNCHANGED viewVars

\* the action strings the if/elif chain of lines 305-353 tests for
RecognizedActions ==
    {"done", "error", "move", "click", "type", "scroll_up", "scroll_down"}

\* no branch of the if/elif chain matches: the loop body ends
ActUnrecognized ==
    /\ pc = "analyzed"
    /\ CurrentAnalysis.suggested_action \notin RecognizedActions
    /\ pc' = "loop"
    /\ UNCHANGED <<max_iterations, move_speed, callback, iteration, history,
                   context, estimated_cursor, result, kbd, ptr, events, calls>>
    /\ UNCHANGED runVars
    /\ UNCHANGED viewVars

Next ==
    \/ StartTask
    \/ CaptureOk
    \/ CaptureFail
    \/ ReturnMaxIterations
    \/ AnalyzeOk
    \/ AnalyzeFail
    \/ ActDone
    \/ ActError
    \/ ActMove
    \/ ActClick
    \/ ActType
    \/ ActScrollUp
    \/ ActScrollDown
    \/ ActUnrecognized

Spec == Init /\ [][Next]_vars

----------------------------------------------------------------------------
(* A HID client that calls the Keyboard operations directly, in any order  *)

\* characters passed to press_key: plain, shifted, control, unmapped
ClientChars == {"a", "A", "?", "\n", "grave", "\r"}

\* modifier arguments passed to press_key and press_special
ClientModifiers == {MOD_NONE, MOD_SHIFT, MOD_CTRL + MOD_ALT}

\* key names passed to press_special, one of them unknown
ClientSpecials == {"enter", "PageUp", "f5", "nokey"}

\* strings passed to type_string
ClientTexts == {<<>>, <<"\r">>, <<"O", "k", "\r", "!">>}

\* key combinations passed to hotkey
ClientHotkeys ==
    {<<>>, <<"shift">>, <<"ctrl", "c">>, <<"Ctrl", "alt", "delete">>,
     <<"cmd", "space">>, <<"nokey">>}

ClientPressKey ==
    /\ pc = "idle"
    /\ calls < MaxCalls
    /\ \E char \in ClientChars, modifier \in ClientModifiers :
        kbd' = press_key(kbd, char, modifier)
    /\ calls' = calls + 1
    /\ UNCHANGED <<pc, max_iterations, move_speed, callback, iteration, history,
                   context, estimated_cursor, result, ptr, events>>
    /\ UNCHANGED runVars
    /\ UNCHANGED viewVars

ClientPressSpecial ==
    /\ pc = "idle"
    /\ calls < MaxCalls
    /\ \E key \in ClientSpecials, modifier \in ClientModifiers :
        kbd' = press_special(kbd, key, modifier)
    /\ calls' = calls + 1
    /\ UNCHANGED <<pc, max_iterations, move_speed, callback, iteration, history,
                   context, estimated_cursor, result, ptr, events>>
    /\ UNCHANGED runVars
    /\ UNCHANGED viewVars

ClientTypeString ==
    /\ pc = "idle"
    /\ calls < MaxCalls
    /\ \E text \in ClientTexts : kbd' = type_string(kbd, text)
    /\ calls' = calls + 1
    /\ UNCHANGED <<pc, max_iterations, move_speed, callback, iteration, history,
                   context, estimated_cursor, result, ptr, events>>
    /\ UNCHANGED runVars
    /\ UNCHANGED viewVars

ClientHotkey ==
    /\ pc = "idle"
    /\ calls < MaxCalls
    /\ \E keys \in ClientHotkeys : kbd' = hotkey(kbd, keys)
    /\ calls' = calls + 1
    /\ UNCHANGED <<pc, max_iterations, move_speed, callback, iteration, history,
                   context, estimated_cursor, result, ptr, events>>
    /\ UNCHANGED runVars
    /\ UNCHANGED viewVars

NextHid ==
    \/ ClientPressKey
    \/ ClientPressSpecial
    \/ ClientTypeString
    \/ ClientHotkey

SpecHid == Init /\ [][NextHid]_vars

----------------------------------------------------------------------------
(* A HID client that types one text on a keyboard nothing was written to   *)

\* the characters of the two tables
KeymapChars == DOMAIN KEYMAP \cup DOMAIN SHIFT_CHARS

\* characters in neither table: carriage return and a letter outside ASCII
UnmappedChars == {"\r", "e-acute"}

\* a plain, a shifted and an unmapped character, and a shifted punctuation
SampleChars == {"h", "I", "\r", "?"}

\* the sequences over chars of length at most n
RECURSIVE SeqsUpTo(_, _)
SeqsUpTo(chars, n) ==
    IF n = 0
    THEN {<<>>}
    ELSE LET shorter == SeqsUpTo(chars, n - 1)
         IN  shorter \cup {Append(t, c) : t \in shorter, c \in chars}

\* strings passed to type_string: every pair of characters, and every string
\* of the sample characters up to the length bound
TypedTexts ==
    {<<c, d>> : c \in KeymapChars \cup UnmappedChars,
                d \in KeymapChars \cup UnmappedChars}
    \cup SeqsUpTo(SampleChars, MaxTextLen)

\* Keyboard.type_string(text), the client's one call
ClientTypeText ==
    /\ pc = "idle"
    /\ calls = 0
    /\ \E text \in TypedTexts :
        /\ kbd' = type_string(kbd, text)
        /\ events' = Append(events, Event("type_string", 0, TRUE, text))
                         \o ReportEvents(0, "kbd", kbd, kbd')
    /\ calls' = calls + 1
    /\ UNCHANGED <<pc, max_iterations, move_speed, callback, iteration, history,
                   context, estimated_cursor, result, ptr>>
    /\ UNCHANGED runVars
    /\ UNCHANGED viewVars

NextType == ClientTypeText

SpecType == Init /\ [][NextType]_vars

----------------------------------------------------------------------------
(* A HID client that calls the Mouse operations directly, in any order     *)

\* offsets passed to Mouse.move, inside and outside the device range
ClientDeltas == {-300, -127, 0, 128}

\* button names passed to Mouse.click, one of them unknown
ClientButtons == {"left", "right", "middle", "double"}

\* target coordinates passed to Mouse.move_to
ClientTargets == {<<0, 0>>, <<130, 5>>, <<300, 260>>}

\* current coordinates passed to Mouse.move_to: not given, or given
ClientCurrents == {<<None, None>>, <<Some(40), None>>, <<Some(0), Some(0)>>,
                   <<Some(400), Some(100)>>}

ClientMouseMove ==
    /\ pc = "idle"
    /\ calls < MaxCalls
    /\ \E x \in ClientDeltas, y \in ClientDeltas :
        /\ ptr' = Mouse_move(ptr, x, y)
        /\ events' = Append(events, Event("move", 0, TRUE, <<x, y>>))
                         \o ReportEvents(0, "ptr", ptr, ptr')
    /\ calls' = calls + 1
    /\ UNCHANGED <<pc, max_iterations, move_speed, callback, iteration, history,
                   context, estimated_cursor, result, kbd>>
    /\ UNCHANGED runVars
    /\ UNCHANGED viewVars

ClientMouseClick ==
    /\ pc = "idle"
    /\ calls < MaxCalls
    /\ \E button \in ClientButtons :
        /\ ptr' = Mouse_click(ptr, button)
        /\ events' = events \o ReportEvents(0, "ptr", ptr, ptr')
    /\ calls' = calls + 1
    /\ UNCHANGED <<pc, max_iterations, move_speed, callback, iteration, history,
                   context, estimated_cursor, result, kbd>>
    /\ UNCHANGED runVars
    /\ UNCHANGED viewVars

ClientMouseMoveTo ==
    /\ pc = "idle"
    /\ calls < MaxCalls
    /\ \E target \in ClientTargets, current \in ClientCurrents :
        /\ ptr' = Mouse_move_to(ptr, target[1], target[2], current[1], current[2])
        /\ events' = Append(events, Event("move_to", 0, TRUE, <<target, current>>))
                         \o ReportEvents(0, "ptr", ptr, ptr')
    /\ calls' = calls + 1
    /\ UNCHANGED <<pc, max_iterations, move_speed, callback, iteration, history,
                   context, estimated_cursor, result, kbd>>
    /\ UNCHANGED runVars
    /\ UNCHANGED viewVars

NextMouse ==
    \/ ClientMouseMove
    \/ ClientMouseClick
    \/ ClientMouseMoveTo

SpecMouse == Init /\ [][NextMouse]_vars

----------------------------------------------------------------------------
(* An Agent whose judge only steers the pointer, clicks or finishes        *)

NextPointer ==
    \/ StartTask
    \/ CaptureOk
    \/ CaptureFail
    \/ ReturnMaxIterations
    \/ AnalyzeOk
    \/ AnalyzeFail
    \/ ActDone
    \/ ActMove
    \/ ActClick

SpecPointer == InitPointer /\ [][NextPointer]_vars

----------------------------------------------------------------------------
(* An Agent whose judge returns each kind of action                        *)

SpecKinds == InitKinds /\ [][Next]_vars

----------------------------------------------------------------------------
(* An Agent that is given several tasks, one after the other               *)

NextRuns ==
    \/ StartTask
    \/ StartAgain
    \/ CaptureOk
    \/ CaptureFail
    \/ ReturnMaxIterations
    \/ AnalyzeOk
    \/ AnalyzeFail
    \/ ActDone
    \/ ActMove

SpecRuns == InitRuns /\ [][NextRuns]_vars

----------------------------------------------------------------------------
(* src/src/viewer.py: Viewer.update and the display thread                 *)

\* queue.Queue(maxsize=5)
QueueSize == 5

\* mutant: the queue counts as full only beyond its capacity
Full_OffByOne(q) == Len(q) > QueueSize

\* Queue.full()
Full(q) == Len(q) >= QueueSize

\* mutant: queue.Empty raised by get_nowait is not caught and leaves update
AfterEmpty_Uncaught == "raised"

\* "except queue.Empty: break" (lines 85-86): control goes on to put_nowait
AfterEmpty == "put"

\* "except queue.Full: pass" (lines 88-89): update returns
AfterFull == "idle"

\* producer p calls update(frame); frames are numbered in submission order
UpdateCall(p) ==
    /\ upd[p].pc = "idle"
    /\ submitted < MaxFrames
    /\ submitted' = submitted + 1
    /\ upd' = [upd EXCEPT ![p] = [pc |-> "test", frame |-> submitted + 1]]
    /\ UNCHANGED <<frame_queue, current_frame, display, discarded, dropped, shown>>
    /\ UNCHANGED <<pc, max_iterations, move_speed, callback, iteration, history,
                   context, estimated_cursor, result, kbd, ptr, events, calls>>
    /\ UNCHANGED runVars

\* "while self._frame_queue.full()" (line 82)
UpdateTest(p) ==
    /\ upd[p].pc = "test"
    /\ upd' = [upd EXCEPT ![p].pc = IF Full(frame_queue) THEN "get" ELSE "put"]
    /\ UNCHANGED <<frame_queue, current_frame, display, submitted, discarded,
                   dropped, shown>>
    /\ UNCHANGED <<pc, max_iterations, move_speed, callback, iteration, history,
                   context, estimated_cursor, result, kbd, ptr, events, calls>>
    /\ UNCHANGED runVars

\* "self._frame_queue.get_nowait()" (lines 83-86): the oldest frame is removed,
\* or queue.Empty is raised when the queue has been emptied meanwhile
UpdateGet(p) ==
    /\ upd[p].pc = "get"
    /\ IF frame_queue # <<>>
       THEN /\ frame_queue' = Tail(frame_queue)
            /\ discarded' = Append(discarded, Head(frame_queue))
            /\ upd' = [upd EXCEPT ![p].pc = "test"]
       ELSE /\ upd' = [upd EXCEPT ![p].pc = AfterEmpty]
            /\ UNCHANGED <<frame_queue, discarded>>
    /\ UNCHANGED <<current_frame, display, submitted, dropped, shown>>
    /\ UNCHANGED <<pc, max_iterations, move_speed, callback, iteration, history,
                   context, estimated_cursor, result, kbd, ptr, events, calls>>
    /\ UNCHANGED runVars

\* "self._frame_queue.put_nowait(frame)" (lines 87-89): the frame is enqueued,
\* or queue.Full is raised and swallowed when the queue has no free slot
UpdatePut(p) ==
    /\ upd[p].pc = "put"
    /\ IF ~Full(frame_queue)
       THEN /\ frame_queue' = Append(frame_queue, upd[p].frame)
            /\ upd' = [upd EXCEPT ![p].pc = "idle"]
            /\ UNCHANGED dropped
       ELSE /\ dropped' = Append(dropped, upd[p].frame)
            /\ upd' = [upd EXCEPT ![p].pc = AfterFull]
            /\ UNCHANGED frame_queue
    /\ UNCHANGED <<current_frame, display, submitted, discarded, shown>>
    /\ UNCHANGED <<pc, max_iterations, move_speed, callback, iteration, history,
                   context, estimated_cursor, result, kbd, ptr, events, calls>>
    /\ UNCHANGED runVars

\* one step of producer p inside update
UpdateStep(p) == UpdateTest(p) \/ UpdateGet(p) \/ UpdatePut(p)

\* Viewer.start (lines 62-69): the display thread begins to run _run_loop
ViewerStart ==
    /\ display = "none"
    /\ display' = "running"
    /\ UNCHANGED <<frame_queue, current_frame, upd, submitted, discarded,
                   dropped, shown>>
    /\ UNCHANGED <<pc, max_iterations, move_speed, callback, iteration, history,
                   context, estimated_cursor, result, kbd, ptr, events, calls>>
    /\ UNCHANGED runVars

\* _run_loop, lines 205-209: "frame = self._frame_queue.get(timeout=0.1)"
\* returns the oldest frame, which becomes the current one; a get that times
\* out with queue.Empty changes nothing
DisplayGet ==
    /\ display = "running"
    /\ frame_queue # <<>>
    /\ frame_queue' = Tail(frame_queue)
    /\ current_frame' = Some(Head(frame_queue))
    /\ shown' = Append(shown, Head(frame_queue))
    /\ UNCHANGED <<display, upd, submitted, discarded, dropped>>
    /\ UNCHANGED <<pc, max_iterations, move_speed, callback, iteration, history,
                   context, estimated_cursor, result, kbd, ptr, events, calls>>
    /\ UNCHANGED runVars

\* _run_loop, lines 205 and 226-229, and Viewer.stop (line 73): _running
\* becomes False and the loop ends
DisplayQuit ==
    /\ display = "running"
    /\ display' = "stopped"
    /\ UNCHANGED <<frame_queue, current_frame, upd, submitted, discarded,
                   dropped, shown>>
    /\ UNCHANGED <<pc, max_iterations, move_speed, callback, iteration, history,
                   context, estimated_cursor, result, kbd, ptr, events, calls>>
    /\ UNCHANGED runVars

\* the control loop is the only thread that calls update
SoleProducer == {"agent"}

NextViewer ==
    \/ \E p \in SoleProducer : UpdateCall(p)
    \/ \E p \in SoleProducer : UpdateTest(p)
    \/ \E p \in SoleProducer : UpdateGet(p)
    \/ \E p \in SoleProducer : UpdatePut(p)
    \/ ViewerStart
    \/ DisplayGet
    \/ DisplayQuit

SpecViewer == Init /\ [][NextViewer]_vars

\* update called from the control loop and from a second thread at once
NextViewerShared ==
    \/ \E p \in Producers : UpdateCall(p)
    \/ \E p \in Producers : UpdateTest(p)
    \/ \E p \in Producers : UpdateGet(p)
    \/ \E p \in Producers : UpdatePut(p)
    \/ ViewerStart
    \/ DisplayGet
    \/ DisplayQuit

SpecViewerShared == InitRuns /\ [][NextViewerShared]_vars

----------------------------------------------------------------------------
(* Reading the trace *)

\* positions of the trace entries of one kind
EventsOf(kind) == {j \in 1..Len(events) : events[j].kind = kind}

\* positions of the entries of one kind made in iteration n
EventsIn(kind, n) == {j \in EventsOf(kind) : events[j].it = n}

\* the judgments the judge returned, in the order of the calls
RECURSIVE JudgmentsOf(_)
JudgmentsOf(ev) ==
    IF ev = <<>>
    THEN <<>>
    ELSE LET rest == JudgmentsOf(SubSeq(ev, 1, Len(ev) - 1))
             last == ev[Len(ev)]
         IN  IF last.kind = "judge" /\ last.ok
             THEN Append(rest, Get(last.arg[2]))
             ELSE rest

\* the lines of a context string
Lines(ctx) == {ctx[j] : j \in 1..Len(ctx)}

\* execute_task has returned a dict
Returned == pc = "returned"

\* an exception has left execute_task: there is no return value
Raised == pc = "raised"

\* the judgment of iteration n asks for action a
ActionAt(n) == history[n].suggested_action

\* the body of iteration n has run to its end
IterationOver(n) == n < iteration \/ pc \in {"loop", "returned", "raised"}

----------------------------------------------------------------------------
(* Claims about Agent.execute_task *)

\* C1: when the judge returns 'done' on iteration k, after k - 1 iterations
\* that did not, and every capture and judge call succeeded, execute_task
\* returns success = True, iterations = k and error None; iteration k wrote
\* no keyboard or pointer report; and no capture or judge call is made after
\* iteration k.  (The value is that of the return statement; a run in which
\* the callback raises returns nothing, see C8.)
C1_DoneReturnsSuccess ==
    \A k \in 1..Len(history) :
        ActionAt(k) = "done" =>
            /\ k = Len(history) /\ k = iteration
            /\ EventsIn("report", k) = {}
            /\ \A j \in EventsOf("capture") \cup EventsOf("judge") : events[j].it <= k
            /\ Cardinality(EventsIn("capture", k)) = 1
            /\ Cardinality(EventsIn("judge", k)) = 1
            /\ pc \in {"analyzed", "returned", "raised"}
            /\ Returned =>
                  /\ Get(result).success = TRUE
                  /\ Get(result).iterations = k
                  /\ Get(result).error = None
            /\ ~Returned => result = None

\* C1 witness: a run with max_iterations = 3 returned success on iteration 2,
\* after an iteration that wrote reports
C1_Witness ==
    /\ Returned
    /\ max_iterations = 3
    /\ Len(history) = 2
    /\ ActionAt(2) = "done"
    /\ Get(result).success
    /\ EventsIn("report", 1) # {}

\* C2 as stated: when the judge never returns 'done' and every capture and
\* judge call succeeds, execute_task returns success = False,
\* iterations = max_iterations and error = "max iterations reached".
C2_Original_LowerCaseReason ==
    (/\ Returned
     /\ \A k \in 1..Len(history) : ActionAt(k) # "done"
     /\ \A j \in EventsOf("capture") \cup EventsOf("judge") : events[j].ok)
    => /\ Get(result).success = FALSE
       /\ Get(result).iterations = max_iterations
       /\ Get(result).error = Some(<<"max iterations reached">>)

\* C2 amended: when the judge never returns 'done' and every capture and
\* judge call succeeds, execute_task returns success = False,
\* iterations = max_iterations and error = "Max iterations reached", after
\* exactly max_iterations captures and max_iterations judge calls.
C2_MaxIterationsReached ==
    (/\ Returned
     /\ \A k \in 1..Len(history) : ActionAt(k) # "done"
     /\ \A j \in EventsOf("capture") \cup EventsOf("judge") : events[j].ok)
    => /\ Get(result).success = FALSE
       /\ Get(result).iterations = max_iterations
       /\ Get(result).error = Some(<<"Max iterations reached">>)
       /\ Cardinality(EventsOf("capture")) = max_iterations
       /\ Cardinality(EventsOf("judge")) = max_iterations
       /\ Len(history) = max_iterations

\* C2 witness: three iterations without 'done', then the return
C2_Witness ==
    /\ Returned
    /\ max_iterations = 3
    /\ Len(history) = 3
    /\ \A k \in 1..3 : ActionAt(k) # "done"
    /\ Get(result).iterations = 3
    /\ ~Get(result).success

\* C3: when the capture fails on iteration i, execute_task returns at once
\* with success = False, iterations = i and an error that begins with
\* "Capture failed: "; the capture is not retried, and iteration i has no
\* judge call, no device report and no callback invocation.
C3_CaptureFailureIsFatal ==
    \A j \in EventsOf("capture") :
        ~events[j].ok =>
            LET i == events[j].it
            IN  /\ j = Len(events)
                /\ Returned
                /\ Get(result).success = FALSE
                /\ Get(result).iterations = i
                /\ IsSome(Get(result).error)
                /\ Get(Get(result).error)[1] = "Capture failed: "
                /\ Get(Get(result).error)[2] = events[j].arg
                /\ EventsIn("capture", i) = {j}
                /\ EventsIn("judge", i) = {}
                /\ EventsIn("report", i) = {}
                /\ EventsIn("callback", i) = {}
                /\ Len(history) = i - 1

\* C3 witness: the capture of iteration 2 failed, with a callback supplied
C3_Witness ==
    /\ Returned
    /\ callback = "present"
    /\ events # <<>>
    /\ events[Len(events)].kind = "capture"
    /\ ~events[Len(events)].ok
    /\ events[Len(events)].it = 2
    /\ Get(result).iterations = 2

\* C4: when the judge call raises on iteration i, execute_task returns at
\* once with success = False, iterations = i and a reason string; iteration i
\* writes no device report, no later iteration runs, and the history holds
\* exactly the judgments of iterations 1..i-1.
C4_JudgeFailureIsFatal ==
    \A j \in EventsOf("judge") :
        ~events[j].ok =>
            LET i == events[j].it
            IN  /\ j = Len(events)
                /\ Returned
                /\ Get(result).success = FALSE
                /\ Get(result).iterations = i
                /\ IsSome(Get(result).error)
                /\ Get(Get(result).error)[1] = "Vision failed: "
                /\ EventsIn("report", i) = {}
                /\ \A m \in 1..Len(events) : events[m].it <= i
                /\ Len(Get(result).history) = i - 1
                /\ Get(result).history = JudgmentsOf(events)

\* C4 witness: the judge call of iteration 3 raised after two judgments
C4_Witness ==
    /\ Returned
    /\ events # <<>>
    /\ events[Len(events)].kind = "judge"
    /\ ~events[Len(events)].ok
    /\ events[Len(events)].it = 3
    /\ Len(Get(result).history) = 2

\* the line execute_task appends to the context for an 'error' judgment of
\* iteration n
ErrorNoteOf(n) == Note(n, <<"Error - ", history[n].target_description>>)

\* C5: a judgment with action 'error' on iteration i is not fatal: iteration
\* i writes no keyboard or pointer report, the loop goes on to iteration
\* i + 1 when i < max_iterations (a return after it is the return of a later
\* iteration or of the exhausted budget, never a failure of iteration i), and
\* the context passed to the judge on iteration i + 1 contains the note of
\* iteration i's error.
C5_ErrorIsRecoverable ==
    \A i \in 1..Len(history) :
        ActionAt(i) = "error" =>
            /\ EventsIn("report", i) = {}
            /\ IterationOver(i) => ErrorNoteOf(i) \in Lines(context)
            /\ \A j \in EventsIn("judge", i + 1) :
                  ErrorNoteOf(i) \in Lines(events[j].arg[1])
            /\ (Returned /\ i < max_iterations) =>
                  /\ Get(result).iterations > i
                  /\ EventsIn("capture", i + 1) # {}
            /\ (Returned /\ i = max_iterations) =>
                  Get(result).error = Some(<<"Max iterations reached">>)
            /\ (pc = "loop" /\ i = iteration) => result = None

\* C5 witness: the judge is called on iteration 2 with a context that holds
\* the note of the error of iteration 1
C5_Witness ==
    /\ Len(history) = 2
    /\ ActionAt(1) = "error"
    /\ \E j \in EventsIn("judge", 2) : ErrorNoteOf(1) \in Lines(events[j].arg[1])

\* C6 as stated: a judgment with an unrecognized action string is handled
\* like an 'error' judgment: no device report, a failure note for the
\* iteration appended to the context, the callback invoked once, and the loop
\* continues.
C6_Original_UnrecognizedLikeError ==
    \A i \in 1..Len(history) :
        (ActionAt(i) \notin RecognizedActions /\ IterationOver(i)) =>
            /\ EventsIn("report", i) = {}
            /\ \A j \in EventsIn("judge", i + 1) :
                  \E line \in Lines(events[j].arg[1]) :
                      line.iteration = i /\ line.text[1] = "Error - "
            /\ callback = "present" => Cardinality(EventsIn("callback", i)) = 1
            /\ (Returned /\ i < max_iterations) => Get(result).iterations > i

C8_Original_CallbackFailureSwallowed ==
    \A j \in EventsOf("callback") :
        ~events[j].ok => (~Raised /\ pc \in {"loop", "captured", "analyzed", "returned"})

\* C9 as stated: with a callback supplied, every iteration in which the judge
\* returned a judgment invokes it exactly once, with the iteration index,
\* that judgment and its action string, whatever the action, and after the
\* device reports of the iteration.
C9_Original_CallbackOncePerIteration ==
    \A i \in 1..Len(history) :
        (callback = "present" /\ IterationOver(i)) =>
            /\ Cardinality(EventsIn("callback", i)) = 1
            /\ \A j \in EventsIn("callback", i) :
                  /\ events[j].arg = <<history[i], ActionAt(i)>>
                  /\ \A m \in EventsIn("report", i) : m < j

----------------------------------------------------------------------------
(* Claims about Keyboard *)

\* the all-zero release report
ReleaseReport == <<0, 0, 0, 0, 0, 0, 0, 0>>

\* a report with a non-zero modifier or keycode
IsPress(report) == report[1] # 0 \/ report[3] # 0

\* C10: on the keyboard channel, after any sequence of press_key,
\* press_special, hotkey and type_string calls, every 8-byte report with a
\* non-zero modifier or keycode is directly followed by the all-zero release
\* report; so the last report written, if any, is all-zero and no key or
\* modifier is left held.
C10_PressThenRelease ==
    \A j \in 1..Len(kbd) :
        /\ Len(kbd[j]) = 8
        /\ IsPress(kbd[j]) => (j < Len(kbd) /\ kbd[j + 1] = ReleaseReport)
        /\ j = Len(kbd) => kbd[j] = ReleaseReport

\* C10 witness: two calls were made, one of them a hotkey-like report with a
\* modifier and a keycode, another a report with a modifier alone
C10_Witness ==
    /\ calls = 2
    /\ \E j \in 1..Len(kbd) : kbd[j][1] # 0 /\ kbd[j][3] # 0
    /\ \E j \in 1..Len(kbd) : kbd[j][1] # 0 /\ kbd[j][3] = 0

----------------------------------------------------------------------------
(* Claims about the Mouse reports *)

\* a value that struct.pack packs into one signed byte
IsByte(v) == v \in -128..127

(* C11: every report written to the pointer channel by any sequence of     *)
(* Mouse.move, Mouse.click and Mouse.move_to calls, whatever the integer   *)
(* arguments, is a report of three bytes whose dx and dy lie in            *)
(* [-127, 127] and whose button byte is 0, 1, 2 or 4.                      *)
C11_PointerReportsInRange ==
    \A k \in 1..Len(ptr) :
        /\ Len(ptr[k]) = 3
        /\ \A b \in 1..3 : IsByte(ptr[k][b])
        /\ ptr[k][1] \in {0, 1, 2, 4}
        /\ ptr[k][2] \in -127..127
        /\ ptr[k][3] \in -127..127

\* a move below -127 on one axis and above 127 on the other was sent as one
\* report at the two limits, and a click with an unknown button name was sent
C11_Witness ==
    /\ \E j \in EventsOf("move") :
          /\ events[j].arg[1] < -127
          /\ events[j].arg[2] > 127
          /\ j < Len(events)
          /\ events[j + 1].arg = <<"ptr", <<0, -127, 127>>>>
    /\ \E k \in 1..Len(ptr) : ptr[k][1] # 0

\* the reports written by the call whose trace entry is at position j: the
\* report entries that follow it without interruption
RECURSIVE ReportsAfter(_)
ReportsAfter(j) ==
    IF j < Len(events) /\ events[j + 1].kind = "report"
    THEN <<events[j + 1].arg[2]>> \o ReportsAfter(j + 1)
    ELSE <<>>

\* the sum of field b of a sequence of reports
RECURSIVE SumField(_, _)
SumField(reports, b) ==
    IF reports = <<>> THEN 0 ELSE Head(reports)[b] + SumField(Tail(reports), b)

\* the calls that request a pointer delta: Mouse.move, and Mouse.move_to from
\* a known current position
DeltaRequests ==
    {j \in EventsOf("move") \cup EventsOf("move_to") :
        events[j].kind = "move_to" =>
            IsSome(events[j].arg[2][1]) /\ IsSome(events[j].arg[2][2])}

\* the <<dx, dy>> that the call at position j requests
RequestedDelta(j) ==
    IF events[j].kind = "move"
    THEN events[j].arg
    ELSE <<events[j].arg[1][1] - Get(events[j].arg[2][1]),
           events[j].arg[1][2] - Get(events[j].arg[2][2])>>

\* the requested delta leaves the range of one report
OutOfRange(d) == d[1] > 127 \/ d[1] < -127 \/ d[2] > 127 \/ d[2] < -127

(* C12 as stated: every requested pointer delta with |dx| > 127 or         *)
(* |dy| > 127 is sent as at least two pointer reports, each component in   *)
(* [-127, 127], whose dx and dy sum exactly to the requested delta.        *)
C12_Original_LargeDeltaDecomposed ==
    \A j \in DeltaRequests :
        OutOfRange(RequestedDelta(j)) =>
            LET reports == ReportsAfter(j)
            IN  /\ Len(reports) >= 2
                /\ SumField(reports, 2) = RequestedDelta(j)[1]
                /\ SumField(reports, 3) = RequestedDelta(j)[2]
                /\ \A k \in 1..Len(reports) :
                      reports[k][2] \in -127..127 /\ reports[k][3] \in -127..127

----------------------------------------------------------------------------
(* Claims about the keymap and Keyboard.type_string *)

\* the characters chr(32) .. chr(126)
PrintableAscii ==
    {" ", "!", "\"", "#", "$", "%", "&", "'", "(", ")", "*", "+",
     ",", "-", ".", "/", "0", "1", "2", "3", "4", "5", "6", "7",
     "8", "9", ":", ";", "<", "=", ">", "?", "@", "A", "B", "C",
     "D", "E", "F", "G", "H", "I", "J", "K", "L", "M", "N", "O",
     "P", "Q", "R", "S", "T", "U", "V", "W", "X", "Y", "Z", "[",
     "\\", "]", "^", "_", "grave", "a", "b", "c", "d", "e", "f", "g",
     "h", "i", "j", "k", "l", "m", "n", "o", "p", "q", "r", "s",
     "t", "u", "v", "w", "x", "y", "z", "{", "|", "}", "~"}

\* the text the client typed
TypedText == events[1].arg

\* a text has been typed
Typed == events # <<>> /\ events[1].kind = "type_string"

\* the <<keycode, shift flag>> of a press report
KeyOf(report) == <<report[3], (report[1] \div MOD_SHIFT) % 2 = 1>>

(* C13: every character of KEYMAP and of SHIFT_CHARS, which together cover *)
(* printable ASCII, is typed as a (keycode, shift flag) pair that no other *)
(* character is typed as; a SHIFT_CHARS character is typed as the keycode  *)
(* of its base character with shift set, a KEYMAP character as its own     *)
(* keycode without shift.                                                  *)
C13_KeymapInjective ==
    /\ PrintableAscii \subseteq KeymapChars
    /\ (Typed /\ Len(TypedText) = 2 /\ TypedText[1] \in KeymapChars
              /\ TypedText[2] \in KeymapChars) =>
          /\ Len(kbd) = 4
          /\ KeyOf(kbd[1]) = KeyOf(kbd[3]) => TypedText[1] = TypedText[2]
          /\ \A n \in 1..2 :
                LET char == TypedText[n]
                    key == KeyOf(kbd[2 * n - 1])
                IN  /\ key[1] # 0
                    /\ char \in DOMAIN SHIFT_CHARS =>
                          key = <<KEYMAP[SHIFT_CHARS[char]], TRUE>>
                    /\ char \in DOMAIN KEYMAP => key = <<KEYMAP[char], FALSE>>

\* a shifted character and its base character were typed: the same keycode,
\* told apart by the shift flag only
C13_Witness ==
    /\ Typed
    /\ TypedText = <<"?", "/">>
    /\ Len(kbd) = 4
    /\ KeyOf(kbd[1]) = <<56, TRUE>>
    /\ KeyOf(kbd[3]) = <<56, FALSE>>

\* the reports one character of a typed text is written as
ReportsOfChar(char) ==
    IF char \in DOMAIN SHIFT_CHARS
    THEN <<<<MOD_SHIFT, 0, KEYMAP[SHIFT_CHARS[char]], 0, 0, 0, 0, 0>>, ReleaseReport>>
    ELSE IF char \in DOMAIN KEYMAP
    THEN <<<<MOD_NONE, 0, KEYMAP[char], 0, 0, 0, 0, 0>>, ReleaseReport>>
    ELSE <<>>

\* the reports of the characters of a text, in the order of the characters
RECURSIVE ReportsOfText(_)
ReportsOfText(text) ==
    IF text = <<>>
    THEN <<>>
    ELSE ReportsOfChar(Head(text)) \o ReportsOfText(Tail(text))

(* C14: type_string(text) writes to the keyboard channel, in the order of  *)
(* the characters, exactly one press report and one release report for     *)
(* each mapped character and nothing for an unmapped one; an unmapped      *)
(* character raises no error and does not stop the characters after it.    *)
C14_TypeStringSkipsUnmapped ==
    Typed => /\ kbd = ReportsOfText(TypedText)
             /\ pc = "idle"

\* a text with an unmapped character between two mapped ones was typed: the
\* character after it was still written
C14_Witness ==
    /\ Typed
    /\ TypedText = <<"h", "\r", "I">>
    /\ Len(kbd) = 4
    /\ kbd[3] = <<MOD_SHIFT, 0, 12, 0, 0, 0, 0, 0>>

----------------------------------------------------------------------------
(* Claims about the pointer commands of execute_task *)

\* the judgment of the current iteration asks for action a and is about to be
\* translated
About(a) == pc = "analyzed" /\ CurrentAnalysis.suggested_action = a

\* the square of the distance between two points
Dist2(p, q) == (p.x - q.x) * (p.x - q.x) + (p.y - q.y) * (p.y - q.y)

(* C15: a 'click' judgment always produces exactly one left-button press   *)
(* report (1, 0, 0) followed by one release report (0, 0, 0) on the        *)
(* pointer channel, whatever the distance between the estimate and the     *)
(* target, and leaves the pointer estimate as the observation step set it. *)
C15_ClickPressRelease ==
    [][About("click") =>
          /\ ptr' = ptr \o <<<<1, 0, 0>>, <<0, 0, 0>>>>
          /\ estimated_cursor' = estimated_cursor
          /\ kbd' = kbd]_vars

\* a click was executed while the estimate was more than 50 pixels away from
\* the target of the judgment
C15_Witness ==
    /\ history # <<>>
    /\ ActionAt(Len(history)) = "click"
    /\ IterationOver(Len(history))
    /\ IsSome(estimated_cursor)
    /\ Dist2(Get(estimated_cursor), Get(CurrentAnalysis.target_position)) > 50 * 50
    /\ Len(ptr) >= 2
    /\ SubSeq(ptr, Len(ptr) - 1, Len(ptr)) = <<<<1, 0, 0>>, <<0, 0, 0>>>>

----------------------------------------------------------------------------
(* Claims about the Viewer *)

\* the elements of a sequence
Range(seq) == {seq[k] : k \in 1..Len(seq)}

(* C16: Viewer.update never blocks and never raises to its caller: inside  *)
(* update the producer can always take its next step, no exception leaves  *)
(* it, the frames it discards are older than every frame left pending, and *)
(* the frame it was given is always enqueued, under every interleaving     *)
(* with the display thread that dequeues frames.                           *)
C16_UpdateNeverBlocksOrRaises ==
    \A p \in SoleProducer :
        /\ upd[p].pc # "raised"
        /\ upd[p].pc # "idle" => ENABLED UpdateStep(p)
        /\ upd[p].pc = "put" => ~Full(frame_queue)
        /\ dropped = <<>>
        /\ \A d \in Range(discarded), q \in Range(frame_queue) : d < q
        /\ (upd[p].pc = "idle" /\ submitted > 0) =>
              submitted \in Range(frame_queue) \cup Range(shown)

\* update found the queue full while the display thread was consuming: it
\* discarded the oldest pending frame and the queue, full again, ends with
\* the frame update was given
C16_Witness ==
    /\ upd["agent"].pc = "idle"
    /\ display = "running"
    /\ shown # <<>>
    /\ discarded # <<>>
    /\ Len(frame_queue) = QueueSize
    /\ frame_queue[QueueSize] = submitted

----------------------------------------------------------------------------
(* Claims about several runs on one Agent *)

(* C17: a result returned by execute_task, its history list included, is   *)
(* never changed by a later operation on the same Agent, in particular     *)
(* not by a later execute_task run: every step leaves every dict returned  *)
(* so far as it was.                                                       *)
C17_ReturnedResultsFrozen ==
    [][\A k \in 1..Len(results) :
          /\ Len(results') >= k
          /\ results'[k].dict = results[k].dict]_vars

\* a second run has appended a judgment to its history while the dict the
\* first run returned still holds the first run's judgments
C17_Witness ==
    /\ run = 2
    /\ Len(results) >= 1
    /\ results[1].dict.history # <<>>
    /\ ~results[1].shares
    /\ history # <<>>
    /\ history # results[1].dict.history

----------------------------------------------------------------------------
(* Claims about the pointer estimate *)

(* C18 as stated: after every move command the pointer estimate advances   *)
(* by exactly the dx and dy written in the pointer report, the values      *)
(* after clamping to [-127, 127], for every base move speed.               *)
C18_Original_EstimateFollowsReport ==
    [][(/\ About("move")
        /\ IsSome(CurrentAnalysis.target_position)
        /\ IsSome(estimated_cursor)) =>
          /\ Len(ptr') = Len(ptr) + 1
          /\ estimated_cursor' =
                Some(Point(Get(estimated_cursor).x + ptr'[Len(ptr')][2],
                           Get(estimated_cursor).y + ptr'[Len(ptr')][3]))]_vars

(* C19: whenever a judgment carries a cursor point, the pointer estimate   *)
(* is that point when the action is translated, whatever the estimate was  *)
(* before and whatever the action is; a 'move' of the same iteration is    *)
(* computed from the observed point.                                       *)
C19_ObservationWins ==
    /\ (pc = "analyzed" /\ IsSome(CurrentAnalysis.cursor_position)) =>
          estimated_cursor = CurrentAnalysis.cursor_position
    /\ \A j \in EventsOf("move") :
          LET analysis == history[events[j].it]
          IN  IsSome(analysis.cursor_position) =>
                events[j].arg = MoveVector(analysis.cursor_position,
                                           Get(analysis.target_position), move_speed)

\* iteration 1 moved the estimate away from the observed point; iteration 2
\* observed the cursor again and its move was computed from that point, which
\* gives another vector than the previous estimate would have
C19_Witness ==
    /\ Len(history) >= 2
    /\ EventsIn("move", 1) # {}
    /\ IsSome(history[1].cursor_position)
    /\ IsSome(history[2].cursor_position)
    /\ \E j \in EventsIn("move", 2), i \in EventsIn("move", 1) :
          LET before == EstimateAfterMove(history[1].cursor_position, events[i].arg)
              target == Get(history[2].target_position)
          IN  /\ before # history[2].cursor_position
              /\ events[j].arg = MoveVector(history[2].cursor_position, target, move_speed)
              /\ events[j].arg # MoveVector(before, target, move_speed)

\* the sum of component b of the vectors passed to Mouse.move in the
\* iterations from n on, over the trace up to position j
RECURSIVE SumMoves(_, _, _)
SumMoves(n, b, j) ==
    IF j = 0
    THEN 0
    ELSE SumMoves(n, b, j - 1)
            + (IF events[j].kind = "move" /\ events[j].it >= n
               THEN events[j].arg[b]
               ELSE 0)

\* iteration n is the last one whose judgment carried a cursor point
LastObservation(n) ==
    /\ IsSome(history[n].cursor_position)
    /\ \A m \in (n + 1)..Len(history) : history[m].cursor_position = None

(* C20: starting from an observed cursor point P0, after any number of     *)
(* move iterations in which the judge reports no cursor, the pointer       *)
(* estimate equals P0 plus the component-wise sum of the deltas applied    *)
(* since the observation, exactly.                                         *)
C20_EstimateIsObservationPlusDeltas ==
    \A n \in 1..Len(history) :
        LastObservation(n) =>
            LET P0 == Get(history[n].cursor_position)
            IN  estimated_cursor =
                    Some(Point(P0.x + SumMoves(n, 1, Len(events)),
                               P0.y + SumMoves(n, 2, Len(events))))

\* the cursor was observed in a 'click' iteration and two 'move' iterations
\* without a cursor point followed: the estimate has left the observed point
\* on both axes
C20_Witness ==
    /\ Len(history) = 3
    /\ IterationOver(3)
    /\ ActionAt(1) = "click"
    /\ LastObservation(1)
    /\ ActionAt(2) = "move" /\ EventsIn("move", 2) # {}
    /\ ActionAt(3) = "move" /\ EventsIn("move", 3) # {}
    /\ IsSome(estimated_cursor)
    /\ Get(estimated_cursor).x # Get(history[1].cursor_position).x
    /\ Get(estimated_cursor).y # Get(history[1].cursor_position).y

----------------------------------------------------------------------------
(* Claims about the motion planning of move_cursor_toward *)

\* max(a, b)
Max(a, b) == IF a >= b THEN a ELSE b

\* the speed the three distance bands prescribe for base speed b at a
\* distance whose square is d2
PrescribedSpeed(d2, b) ==
    IF d2 < 50 * 50
    THEN Max(5, b \div 4)
    ELSE IF d2 < 150 * 150 THEN Max(10, b \div 2) ELSE b

\* m is the component of a delta of length speed along an offset whose
\* component is d and whose squared length is d2 > 0, truncated toward zero:
\* it has the sign of d or is zero, and |m| <= |d| * speed / sqrt(d2) < |m| + 1
IsComponent(m, d, d2, speed) ==
    /\ d > 0 => m >= 0
    /\ d < 0 => m <= 0
    /\ d = 0 => m = 0
    /\ m <= speed /\ -m <= speed
    /\ m * m * d2 <= (d * speed) * (d * speed)
    /\ (d * speed) * (d * speed) < (m * m + 2 * (IF m >= 0 THEN m ELSE -m) + 1) * d2

\* mv is the delta of a move of length speed from origin toward target
IsDelta(mv, origin, target, speed) ==
    LET dx == target.x - origin.x
        dy == target.y - origin.y
        d2 == dx * dx + dy * dy
    IN  IF d2 = 0
        THEN mv = <<0, 0>>
        ELSE IsComponent(mv[1], dx, d2, speed) /\ IsComponent(mv[2], dy, d2, speed)

(* C21: for a 'move' from a known estimate with base speed b, the selected *)
(* speed is max(5, b div 4) when the distance d to the target is below 50, *)
(* max(10, b div 2) when 50 <= d < 150, and b otherwise; each component of *)
(* the delta passed to the device has the sign of the target-minus-        *)
(* estimate component or is zero, and is at most the selected speed in     *)
(* absolute value.                                                         *)
C21_BandSpeedAndDirection ==
    [][(/\ About("move")
        /\ IsSome(CurrentAnalysis.target_position)
        /\ IsSome(estimated_cursor)) =>
          LET target == Get(CurrentAnalysis.target_position)
              origin == Get(estimated_cursor)
              planned == events'[Len(events) + 1]
          IN  /\ planned.kind = "move"
              /\ IsDelta(planned.arg, origin, target,
                         PrescribedSpeed(Dist2(origin, target), move_speed))]_vars

\* an agent of base speed 8 has moved from the observed point (900, 500)
\* toward (920, 510), 22 pixels away, at the floor speed 5: by (4, 2)
C21_Witness ==
    /\ move_speed = 8
    /\ \E j \in EventsOf("move") :
          /\ history[events[j].it].cursor_position = Some(Point(900, 500))
          /\ history[events[j].it].target_position = Some(Point(920, 510))
          /\ events[j].arg = <<4, 2>>

\* the 'move' entries of iterations whose judgment carried a cursor point:
\* the moves planned from an observed point
ObservedMoves ==
    {j \in EventsOf("move") : IsSome(history[events[j].it].cursor_position)}

\* the speeds that explain the delta of the observed move at position j
SpeedsThatFit(j) ==
    LET analysis == history[events[j].it]
    IN  {speed \in 0..Max(10, move_speed) :
            IsDelta(events[j].arg, Get(analysis.cursor_position),
                    Get(analysis.target_position), speed)}

\* the squared distance the observed move at position j was planned at
PlannedDist2(j) ==
    Dist2(Get(history[events[j].it].cursor_position),
          Get(history[events[j].it].target_position))

(* C22 as stated: for a fixed target and any base speed, the speed         *)
(* selected at distance d1 is at most the speed selected at distance d2    *)
(* whenever d1 < d2: of two moves toward the same target, the one planned  *)
(* from nearer is not faster than the one planned from farther.            *)
C22_Original_SpeedMonotonic ==
    \A i \in ObservedMoves, j \in ObservedMoves :
        (/\ history[events[i].it].target_position = history[events[j].it].target_position
         /\ PlannedDist2(i) < PlannedDist2(j)) =>
            \E near \in SpeedsThatFit(i), far \in SpeedsThatFit(j) : near <= far

\* the fixed reference point of a move without an estimate
ScreenCentre == Point(ScreenWidth \div 2, ScreenHeight \div 2)

(* C23 as stated: when no pointer estimate exists, the vector of a 'move'  *)
(* is computed from the centre of the screen toward the target with the    *)
(* same three distance bands, applied to the centre-to-target distance,    *)
(* as a move from a known estimate.                                        *)
C23_Original_FallbackUsesBands ==
    estimated_cursor = None =>
        \A j \in EventsOf("move") :
            LET target == Get(history[events[j].it].target_position)
            IN  IsDelta(events[j].arg, ScreenCentre, target,
                        PrescribedSpeed(Dist2(ScreenCentre, target), move_speed))

----------------------------------------------------------------------------
(* Claims about the running context and the order of the loop's steps *)

\* ctx holds one line for each of the iterations 1..n, in order
NotesOfIterations(ctx, n) ==
    /\ Len(ctx) = n
    /\ \A k \in 1..n : ctx[k].iteration = k

(* C24 as stated: every iteration that obtains a judgment and does not end *)
(* the loop appends exactly one line to the running context, whatever the  *)
(* action ('move' without a target, 'type' without text and unrecognized   *)
(* actions included); the context passed to the judge on iteration i is    *)
(* the notes of iterations 1..i-1 in order, and is empty on iteration 1.   *)
C24_Original_OneNotePerIteration ==
    /\ pc = "loop" => NotesOfIterations(context, iteration)
    /\ \A j \in EventsOf("judge") :
          NotesOfIterations(events[j].arg[1], events[j].it - 1)

\* the <<channel, report>> pairs written during iteration n, in order
ReportsIn(n) ==
    LET made == SelectSeq(events, LAMBDA e : e.kind = "report" /\ e.it = n)
    IN  [k \in 1..Len(made) |-> made[k].arg]

\* the pairs a sequence of reports makes on channel chan
OnChannel(chan, reports) ==
    [k \in 1..Len(reports) |-> <<chan, reports[k]>>]

\* rs is what one physical action asked for by analysis writes: one pointer
\* report of a move, the press and release of a click, the reports of one
\* typed text, or the press and release of one paging key
IsOneAction(rs, analysis) ==
    LET a == analysis.suggested_action
    IN  \/ a = "move" /\ Len(rs) = 1 /\ rs[1][1] = "ptr"
        \/ a = "click" /\ rs = OnChannel("ptr", Mouse_click(<<>>, "left"))
        \/ /\ a = "type"
           /\ IsSome(analysis.text_to_type)
           /\ rs = OnChannel("kbd", type_string(<<>>, Get(analysis.text_to_type)))
        \/ a = "scroll_up" /\ rs = OnChannel("kbd", press_special(<<>>, "pageup", MOD_NONE))
        \/ a = "scroll_down" /\ rs = OnChannel("kbd", press_special(<<>>, "pagedown", MOD_NONE))

\* the place of a trace entry within its iteration: the capture, then the
\* judge call, then the action
StepRank(kind) ==
    IF kind = "capture" THEN 1 ELSE IF kind = "judge" THEN 2 ELSE 3

\* the iterations of the run that wrote to a device
ActingIterations == {n \in 1..iteration : ReportsIn(n) # <<>>}

(* C25: in a run, each iteration performs exactly one capture, then at     *)
(* most one judge call, then at most one physical action (the reports of   *)
(* one move, one click, one typed text or one paging key), in that order;  *)
(* nothing of iteration i+1 precedes a device write of iteration i; the    *)
(* number of captures equals the iteration count and the number of actions *)
(* never exceeds the number of judgments.                                  *)
C25_CaptureJudgeActInOrder ==
    /\ Cardinality(EventsOf("capture")) = iteration
    /\ \A n \in 1..iteration :
          /\ Cardinality(EventsIn("capture", n)) = 1
          /\ Cardinality(EventsIn("judge", n)) <= 1
          /\ ReportsIn(n) # <<>> =>
                /\ n <= Len(history)
                /\ \E j \in EventsIn("judge", n) : events[j].ok
                /\ IsOneAction(ReportsIn(n), history[n])
    /\ \A j, k \in 1..Len(events) :
          j < k =>
            /\ events[j].it <= events[k].it
            /\ (events[j].it = events[k].it /\ events[k].kind # "callback"
                  /\ events[j].kind # "callback")
                  => StepRank(events[j].kind) <= StepRank(events[k].kind)
    /\ Cardinality(ActingIterations) <= Len(JudgmentsOf(events))

\* a click in iteration 1, a judgment without action in iteration 2, and
\* the capture of iteration 3 made after them
C25_Witness ==
    /\ iteration = 3
    /\ pc = "captured"
    /\ Len(ReportsIn(1)) = 2
    /\ history[1].suggested_action = "click"
    /\ ReportsIn(2) = <<>>
    /\ Len(history) = 2

----------------------------------------------------------------------------
(* Claims about the channel each action writes on *)

\* the two keyboard reports of one unmodified key: keycode down, all up
PressAndRelease(keycode) ==
    <<<<0, 0, keycode, 0, 0, 0, 0, 0>>, <<0, 0, 0, 0, 0, 0, 0, 0>>>>

\* the usage ids of the paging keys ('pageup': 0x4B, 'pagedown': 0x4E)
PageUpCode == 75
PageDownCode == 78

(* C26: each action writes only on its own channel: 'move' and 'click'     *)
(* write no keyboard report; 'type', 'scroll_up' and 'scroll_down' write   *)
(* no pointer report; scroll_up writes exactly the press and release of    *)
(* the pageup key and scroll_down exactly those of the pagedown key; and   *)
(* no action other than 'move' changes the pointer estimate once the       *)
(* observation step of the iteration is over.                              *)
C26_ActionsOnOwnChannel ==
    [][pc = "analyzed" =>
        LET a == CurrentAnalysis.suggested_action
        IN  /\ a \in {"move", "click"} => kbd' = kbd
            /\ a \in {"type", "scroll_up", "scroll_down"} => ptr' = ptr
            /\ a = "scroll_up" => kbd' = kbd \o PressAndRelease(PageUpCode)
            /\ a = "scroll_down" => kbd' = kbd \o PressAndRelease(PageDownCode)
            /\ a # "move" => estimated_cursor' = estimated_cursor]_vars

\* a click that observed the pointer, then a scroll_up: the estimate of the
\* click is still held and both channels have been written
C26_Witness ==
    /\ pc = "loop"
    /\ iteration = 2
    /\ history[1].suggested_action = "click"
    /\ history[2].suggested_action = "scroll_up"
    /\ estimated_cursor = history[1].cursor_position
    /\ IsSome(estimated_cursor)
    /\ Len(ptr) = 2
    /\ kbd = PressAndRelease(PageUpCode)

----------------------------------------------------------------------------
(* Claims about the state an Agent keeps between runs *)

\* a call of execute_task begins: the step from outside the loop into it
Entering == pc \in {"idle", "returned", "raised"} /\ pc' = "loop"

\* no judgment of the current run carried a cursor point
NothingObservedThisRun ==
    \A k \in 1..Len(history) : ~IsSome(history[k].cursor_position)

(* C27 as stated: each execute_task run starts from fresh loop state:      *)
(* iteration 0, empty history, empty context and an unknown pointer        *)
(* estimate; and nothing of an earlier run on the same Agent influences    *)
(* the commands of a later run: a 'move' of a run that has observed no     *)
(* cursor is the move of an Agent without estimate.                        *)
C27_Original_FreshStatePerRun ==
    [][/\ Entering =>
            /\ iteration' = 0
            /\ history' = <<>>
            /\ context' = <<>>
            /\ estimated_cursor' = None
       /\ (/\ About("move")
           /\ IsSome(CurrentAnalysis.target_position)
           /\ NothingObservedThisRun) =>
            events'[Len(events) + 1].arg =
                MoveVector(None, Get(CurrentAnalysis.target_position), move_speed)]_vars

\* how many iterations a returned dict counts beyond its history: the one
\* in which the capture or the judge call failed
Shortfall(error) ==
    IF IsSome(error) /\ Get(error)[1] \in {"Capture failed: ", "Vision failed: "}
    THEN 1
    ELSE 0

\* the step is a judge call that returned a judgment
JudgeReturns ==
    /\ Len(events') = Len(events) + 1
    /\ events'[Len(events')].kind = "judge"
    /\ events'[Len(events')].ok

(* C28: at every return of execute_task, len(history) = iterations when    *)
(* the run ends with 'done' or with the iteration cap, and len(history) =  *)
(* iterations - 1 when it ends with a capture failure or a judge call      *)
(* failure; during a run the history only grows, by one entry per          *)
(* successful judge call.                                                  *)
C28_HistoryLengthAtReturn ==
    [][/\ (pc # "returned" /\ pc' = "returned") =>
            /\ Get(result').history = history'
            /\ Len(Get(result').history) =
                  Get(result').iterations - Shortfall(Get(result').error)
            /\ Get(result').error = None
                  => history'[Len(history')].suggested_action = "done"
       /\ IF JudgeReturns
          THEN history' = Append(history, Get(events'[Len(events')].arg[2]))
          ELSE history' = history]_vars

\* the judge call of iteration 3 failed: three iterations, two judgments
C28_Witness ==
    /\ Returned
    /\ Get(result).iterations = 3
    /\ Get(result).error = Some(<<"Vision failed: ", "timeout">>)
    /\ Len(Get(result).history) = 2

\* a judgment carrying a cursor point has been received by the Agent, in
\* the trace tr of all its runs
EverObserved(tr) ==
    \E j \in 1..Len(tr) :
        /\ tr[j].kind = "judge"
        /\ tr[j].ok
        /\ IsSome(Get(tr[j].arg[2]).cursor_position)

(* C29: the pointer estimate becomes known only through a judgment that    *)
(* carries a cursor point: while no such judgment has ever been received   *)
(* by the Agent the estimate stays unknown after any number of 'move'      *)
(* commands (fallback moves are sent to the device and not applied to the  *)
(* estimate), and once known it never becomes unknown again.               *)
C29_EstimateKnownOnlyByObservation ==
    [][/\ ~EverObserved(events') => estimated_cursor' = None
       /\ (estimated_cursor = None /\ IsSome(estimated_cursor')) =>
            /\ JudgeReturns
            /\ estimated_cursor' = Get(events'[Len(events')].arg[2]).cursor_position
       /\ IsSome(estimated_cursor) => IsSome(estimated_cursor')
       /\ (About("move") /\ IsSome(CurrentAnalysis.target_position)
             /\ estimated_cursor = None) =>
            /\ Len(ptr') = Len(ptr) + 1
            /\ estimated_cursor' = None]_vars

\* two runs, each with a fallback move sent to the device: the estimate is
\* still unknown
C29_Witness ==
    /\ run = 2
    /\ Len(ptr) = 2
    /\ Cardinality(EventsOf("move")) = 2
    /\ ~EverObserved(events)
    /\ estimated_cursor = None

----------------------------------------------------------------------------
(* Claims about the frame queue under one and under two producers *)

\* only the control loop has called update so far
SingleProducer == upd["other"].frame = 0

\* the entries of seq are in strictly increasing order
Increasing(seq) == \A j, k \in 1..Len(seq) : j < k => seq[j] < seq[k]

(* C30: the frame queue never holds more than 5 frames; with a single      *)
(* producer calling Viewer.update while the display thread consumes, the   *)
(* frame passed to update is always enqueued (no frame is refused, the     *)
(* frames discarded to make room are older than the one being submitted,   *)
(* and after update returns the frame is pending or has been displayed),   *)
(* and frames reach the display thread in submission order.  With two      *)
(* concurrent producers the newly submitted frame can be lost silently:    *)
(* see the witness.                                                        *)
C30_SingleProducerEnqueuesInOrder ==
    /\ Len(frame_queue) <= QueueSize
    /\ SingleProducer =>
          /\ dropped = <<>>
          /\ \A d \in Range(discarded) :
                d < submitted
          /\ (upd["agent"].pc = "idle" /\ submitted > 0) =>
                submitted \in Range(frame_queue) \cup Range(shown)
          /\ Increasing(shown)
          /\ Increasing(frame_queue)
          /\ \A f \in Range(shown), q \in Range(frame_queue) : f < q

\* two producers: one found a free slot, the other filled it, and the
\* first one's put_nowait raised queue.Full, which update swallowed; both
\* calls have returned and the frame is nowhere
C30_Witness ==
    /\ ~SingleProducer
    /\ dropped # <<>>
    /\ \A p \in Producers : upd[p].pc = "idle"
    /\ dropped[1] \notin Range(frame_queue) \cup Range(shown) \cup Range(discarded)
    /\ dropped[1] \in {upd[p].frame : p \in Producers}

\* the step removes a pending frame inside update (get_nowait returned)
Discards == Len(discarded') = Len(discarded) + 1

(* C31 as stated: Viewer.update discards a pending frame only when the     *)
(* queue actually holds 5 frames at the moment of the discard, and         *)
(* discards at most one frame per call (so never more frames than calls    *)
(* made), under every interleaving of the producer's full-check and        *)
(* removal with the display thread's dequeue.                              *)
C31_Original_DiscardOnlyWhenFull ==
    [][Discards =>
        /\ Len(frame_queue) = QueueSize
        /\ Len(discarded') <= submitted]_vars

====
